---- MODULE Spec2Model ----
(***************************************************************************)
(* BigQuery Previewer: the analysis trigger and concurrency coordinator.   *)
(*                                                                         *)
(* The repository holds two builds of the coordinator:                     *)
(*   "service"  - the modular build: analysisService.analyzeQuery (with    *)
(*                the isRunning guard and try/finally), documentUtils,     *)
(*                selectionService, commandHandlers, bigQueryService;      *)
(*   "monolith" - the single-file extension, whose analyzeQuery sets       *)
(*                isRunning but never reads it.                            *)
(* The event handlers (open, save, will-save, close, change) exist in the  *)
(* source only in the single-file extension; both builds use them here.    *)
(*                                                                         *)
(* Scheduling is the host's: one event callback runs at a time, and a      *)
(* callback is suspended only at the await of the remote call or by a      *)
(* timer.  Every action below is one such uninterrupted run.               *)
(***************************************************************************)
EXTENDS Integers, Sequences, FiniteSets, TLC

\* ------------------------------------------------------------------ bounds
\* Highest document version the host hands out (edits stop there).
MaxVersion == 4
\* Remote calls that may be outstanding together (the monolith has no limit).
MaxInflight == 2
\* Live timers at one time (a guard of every handler that arms one).
MaxTimers == 2
\* Calls recorded in the log of hasDocumentChanged calls.
MaxLog == 4
\* Selection changes the user makes in the runs that mix all trigger classes.
MaxSelectionEvents == 2
MaxResults == 2
\* Dry runs counted by the tracker (performDryRun stops being called there).
MaxDryRuns == 3
\* The highest version edits take a document to in the short scenarios.
MaxEdited == 2

\* ------------------------------------------------------- program constants
defaultWaitTimeUntilNextRun == 5000
waitTimeUntilNextRunForOnChange == 10000
defaultChangeDebounceDelayMs == 1500
\* the auto-dismissing start notice
noticeDelay == 3000
\* the will-save timer and the closing grace window
willSaveDelay == 300
closingGraceDelay == 1000
\* selectionService
selectionStabilizationDelay == 750
maxSelectionTriggers == 5
selectionTriggerResetTime == 1500
defaultScanWarningThresholdMB == 100
\* the longest error text the status bar shows in full
maxErrorLength == 50

\* Times are kept relative to the present: Date.now() is 0, a past instant is
\* negative, a timer's deadline is the time left.  The code only ever uses
\* differences of times, so a shift of the origin changes nothing; an instant
\* further back than the longest wait time is kept as Oldest.
now == 0
Oldest == 0 - (waitTimeUntilNextRunForOnChange + 1)
\* Time is sampled at every timer deadline and, with no timer pending
\* earlier, every Quantum ms; the runs about one timer class also sample the
\* middle of its delay.
Quantum == defaultWaitTimeUntilNextRun
HalfDebounce == defaultChangeDebounceDelayMs \div 2

\* lastRunTime === null (no instant of the past)
NoTime == 1
\* a timer handle that is undefined
NoTimer == 0
\* no document / no editor (undefined)
NoDoc == "none"

\* editor.selection: empty, or one of two ranges
Selections == {"empty", "a", "b"}
\* lastSelection === undefined
NoSelection == [ editor |-> NoDoc, selection |-> "empty", timestamp |-> NoTime ]

\* ------------------------------------------------------------- documents
Docs == {"q", "n"}
LanguageId == [d \in Docs |-> IF d = "q" THEN "sql" ELSE "plaintext"]
FileExt == [d \in Docs |-> IF d = "q" THEN ".sql" ELSE ".txt"]

Builds == {"service", "monolith"}

\* getConfiguration(): the settings the coordinator reads.
DefaultConfig ==
    [ enableStatusBar |-> TRUE, enableNotifications |-> FALSE,
      autoRunOnSave |-> TRUE, autoRunOnChange |-> TRUE, autoRunOnOpen |-> TRUE,
      changeDebounceDelayMs |-> defaultChangeDebounceDelayMs,
      showScanWarnings |-> TRUE,
      scanWarningThresholdMB |-> defaultScanWarningThresholdMB,
      trackDryRuns |-> FALSE ]
\* The settings a user is taken to switch between.
Configs ==
    { DefaultConfig,
      [DefaultConfig EXCEPT !.enableStatusBar = FALSE] }
\* The settings of the dry-run tracker.
TrackingConfigs ==
    { DefaultConfig,
      [DefaultConfig EXCEPT !.trackDryRuns = TRUE] }

VARIABLES
    build,              \* which build of the coordinator runs
    config,             \* the workspace configuration
    isExtensionActive,
    open,               \* the documents the host has open
    visible,            \* the documents shown in a visible editor
    version,            \* document.version of each document
    isRunning,
    lastRunTime,
    documentVersions,   \* Map<string, number>
    inflight,           \* analyzeQuery invocations suspended at await performDryRun
    outcome,            \* how the latest analyzeQuery invocation left, and its arguments
    timers,             \* the live setTimeout timers
    changeDebounceTimer,
    savingDocuments,    \* Map<string, NodeJS.Timeout>
    closingDocuments,   \* Set<string>
    activeEditor,       \* vscode.window.activeTextEditor
    selection,          \* editor.selection of each document's editor
    selectionAnalysisTimer,
    lastSelection,
    selectionTriggerCount,
    callLog,            \* the direct calls of hasDocumentChanged or reportResult made, with their results
    resultStatusBar,    \* what the result status bar item shows
    lastFullErrorMessage,
    dryRunCount,
    lastDryRunTime,
    isDryRunTrackingEnabled

vars == << build, config, isExtensionActive, open, visible, version,
           isRunning, lastRunTime, documentVersions, inflight, outcome,
           timers, changeDebounceTimer, savingDocuments, closingDocuments,
           activeEditor, selection, selectionAnalysisTimer, lastSelection,
           selectionTriggerCount, callLog, resultStatusBar, lastFullErrorMessage,
           dryRunCount, lastDryRunTime, isDryRunTrackingEnabled >>

envVars == << open, visible, version, activeEditor, selection >>
selVars == << selectionAnalysisTimer, lastSelection, selectionTriggerCount >>
reportVars == << resultStatusBar, lastFullErrorMessage >>
statsVars == << dryRunCount, lastDryRunTime, isDryRunTrackingEnabled >>

\* ------------------------------------------------------------ small helpers
Min(S) == CHOOSE x \in S : \A y \in S : x <= y

RemoveAt(s, i) == [ j \in 1..(Len(s) - 1) |-> IF j < i THEN s[j] ELSE s[j + 1] ]

\* A timestamp used as a condition: null is falsy (Date.now() is never 0).
Truthy(t) == t # NoTime

Max(S) == CHOOSE x \in S : \A y \in S : x >= y
\* An instant of the past, seen d ms later.
Aged(t, d) == IF t = NoTime THEN NoTime ELSE Max({t - d, Oldest})
\* lastSelection.timestamp, seen d ms later: the code never reads it, so an
\* instant further back than the counter's reset time is kept as one value.
LongAgo == 0 - (selectionTriggerResetTime + 1)
AgedSelection(l, d) ==
    IF l.timestamp = NoTime THEN l
    ELSE [l EXCEPT !.timestamp = Max({@ - d, LongAgo})]

\* A fresh timer handle: no live timer and no handle variable holds it.
HandlesHeld ==
    {changeDebounceTimer, selectionAnalysisTimer}
        \cup { savingDocuments[d] : d \in DOMAIN savingDocuments }
FreshId(ts) ==
    LET used == { t.id : t \in ts } \cup HandlesHeld
    IN  Min({ i \in 1..(Cardinality(used) + 1) : i \notin used })

\* A live timer: its handle, its callback (kind, and the document and the
\* selection its closure holds) and the time left.
Timer(id, kind, due, d) ==
    [ id |-> id, kind |-> kind, due |-> due, doc |-> d, sel |-> "empty" ]

\* setTimeout(callback, delay), within the model's bound on live timers.
setTimeout(ts, kind, delay, d) == ts \cup {Timer(FreshId(ts), kind, now + delay, d)}
CanArm(ts) == Cardinality(ts) < MaxTimers

\* clearTimeout(handle): a handle of a timer that fired is ignored.
clearTimeout(ts, h) == { t \in ts : t.id # h }

\* ------------------------------------------------------------ documentUtils
isEligibleForAnalysis(d) == LanguageId[d] = "sql" \/ FileExt[d] = ".sql"

\* hasDocumentChanged: the value returned.
hasDocumentChanged(dv, d, v) ==
    ~ (d \in DOMAIN dv /\ dv[d] = v)

\* hasDocumentChanged with the documentVersions.set left out.
documentVersionsKept(dv, d, v) == dv

\* hasDocumentChanged: the map it leaves.
documentVersionsSet(dv, d, v) ==
    IF d \in DOMAIN dv /\ dv[d] = v
        THEN dv
        ELSE [ k \in DOMAIN dv \cup {d} |-> IF k = d THEN v ELSE dv[k] ]

\* removeDocumentFromCache
removeDocumentFromCache(dv, d) == [ k \in DOMAIN dv \ {d} |-> dv[k] ]

\* ------------------------------------------------- the result of a dry run
\* What performDryRun can resolve to: the bytes of the job's statistics with
\* no errors, or zero bytes with the messages of the exception.
MiB == 1024 * 1024
ThresholdsMB == {0, 1, defaultScanWarningThresholdMB}
ScanSizes(mb) == { b \in {0, mb * MiB - 1, mb * MiB, mb * MiB + 1} : b >= 0 }
\* A text is the sequence of its characters; a message of n characters.
Digits == << "0", "1", "2", "3", "4", "5", "6", "7", "8", "9" >>
Message(n) == [ i \in 1..n |-> Digits[(i % 10) + 1] ]
\* The error lists of a failed dry run: one short message, and two messages
\* whose joined text has exactly maxErrorLength characters, or one more.
ErrorLists ==
    { << Message(3) >>,
      << Message(maxErrorLength \div 2 - 1), Message(maxErrorLength \div 2 - 1) >>,
      << Message(maxErrorLength \div 2), Message(maxErrorLength \div 2 - 1) >> }
DryRunResults(mb) ==
    { [ scannedBytes |-> b, errors |-> << >> ] : b \in ScanSizes(mb) }
        \cup { [ scannedBytes |-> 0, errors |-> e ] : e \in ErrorLists }

\* The branch of analyzeQuery's report with >= in place of >.
resultStateInclusive(r, show, mb) ==
    IF Len(r.errors) > 0 THEN "Failed"
    ELSE IF show /\ r.scannedBytes >= mb * 1024 * 1024 THEN "Warning"
    ELSE "Success"

\* The branch analyzeQuery takes to report the result r of performDryRun,
\* with showScanWarnings = show and scanWarningThresholdMB = mb.
resultState(r, show, mb) ==
    IF Len(r.errors) > 0 THEN "Failed"
    ELSE IF show /\ r.scannedBytes > mb * 1024 * 1024 THEN "Warning"
    ELSE "Success"

\* The result the scenarios about triggers and timers let every dry run
\* resolve to: one MiB scanned, no errors.
SmallScan == [ scannedBytes |-> MiB, errors |-> << >> ]
\* Every result of the sets above.
AllDryRunResults == UNION { DryRunResults(mb) : mb \in ThresholdsMB } \cup {SmallScan}

\* errors.join('; ')
RECURSIVE join(_)
join(errors) ==
    IF errors = << >> THEN << >>
    ELSE IF Len(errors) = 1 THEN errors[1]
    ELSE errors[1] \o << ";", " " >> \o join(Tail(errors))

\* lastFullErrorMessage === null
NoMessage == << "null" >>

\* truncatedError with the comparison made inclusive.
truncatedErrorInclusive(full) ==
    IF Len(full) >= maxErrorLength
        THEN SubSeq(full, 1, maxErrorLength) \o << ".", ".", "." >>
        ELSE full

\* truncatedError: substring(0, maxErrorLength) + '...' of a longer text.
truncatedError(full) ==
    IF Len(full) > maxErrorLength
        THEN SubSeq(full, 1, maxErrorLength) \o << ".", ".", "." >>
        ELSE full

\* The label the status bar puts before the error text.
ErrorLabel == << "E", "r", "r", "o", "r", ":", " " >>

\* The result status bar item: the state shown, the scan size of a Success
\* or Warning, the text of a Failed and its tooltip (the full text).
StatusBar(state, bytes, text, tooltip) ==
    [ state |-> state, scannedBytes |-> bytes, text |-> text, tooltip |-> tooltip ]
NoResult == StatusBar("None", 0, << >>, << >>)
Analyzing == StatusBar("Analyzing", 0, << >>, << >>)

\* What analyzeQuery shows for the result r under the configuration cfg it
\* read at its start: in the status bar if enabled (else in a notification,
\* and the status bar keeps what it showed).
reportResult(st, r, cfg) ==
    IF ~cfg.enableStatusBar THEN st
    ELSE IF resultState(r, cfg.showScanWarnings, cfg.scanWarningThresholdMB) = "Failed"
        THEN StatusBar("Failed", 0, ErrorLabel \o truncatedError(join(r.errors)), join(r.errors))
    ELSE StatusBar(resultState(r, cfg.showScanWarnings, cfg.scanWarningThresholdMB),
                   r.scannedBytes, << >>, << >>)

\* lastFullErrorMessage after the result r.
errorMessageAfter(r) == IF Len(r.errors) > 0 THEN join(r.errors) ELSE NoMessage

\* lastDryRunTime, seen d ms later: the code shows it and tests it for null
\* but compares it with nothing, so every past instant is kept as Earlier.
Earlier == 0 - 1
AgedDryRun(t, d) == IF t = NoTime THEN NoTime ELSE Earlier

\* ------------------------------------------------------------- analyzeQuery
\* waitTimeElapsed with the comparison made inclusive.
waitTimeElapsedInclusive(t, last, waitTimeToUse) ==
    Truthy(last) /\ (t - last >= waitTimeToUse)

\* The locals of analyzeQuery before its gates.
waitTimeElapsed(t, last, waitTimeToUse) ==
    Truthy(last) /\ (t - last > waitTimeToUse)

\* How an invocation left: the exit taken, its arguments, and for an
\* invocation that got to the rate gate currentTime - lastRunTime.
Outcome(kind, d, w) == [ kind |-> kind, doc |-> d, wait |-> w, since |-> NoTime ]
GateOutcome(kind, d, w, last) ==
    [ Outcome(kind, d, w) EXCEPT !.since = IF Truthy(last) THEN now - last ELSE NoTime ]

\* The state analyzeQuery reads and writes, as a record.
RunState ==
    [ active |-> isExtensionActive,
      isRunning |-> isRunning, lastRunTime |-> lastRunTime,
      documentVersions |-> documentVersions, inflight |-> inflight,
      outcome |-> outcome,
      status |-> resultStatusBar, lastError |-> lastFullErrorMessage,
      dryRunCount |-> dryRunCount, lastDryRunTime |-> lastDryRunTime,
      tracking |-> isDryRunTrackingEnabled ]

\* vscode.window.visibleTextEditors.find(e => e.document.uri === document.uri)
findEditor(d) == IF d \in visible THEN d ELSE NoDoc

\* document.getText(): the text of a query file (a statement, a blank, a
\* statement), and the range each selection covers in it.
DocumentText == << "S", " ", "T" >>
Range(sel) ==
    CASE sel = "a" -> << 1, 1 >>
      [] sel = "b" -> << 3, 3 >>
      [] sel = "blank" -> << 2, 2 >>
      [] OTHER -> << 1, 0 >>
isEmpty(sel) == Range(sel)[1] > Range(sel)[2]
getText(sel) == SubSeq(DocumentText, Range(sel)[1], Range(sel)[2])
RECURSIVE trim(_)
trim(str) ==
    IF str = << >> THEN str
    ELSE IF Head(str) = " " THEN trim(Tail(str))
    ELSE IF str[Len(str)] = " " THEN trim(SubSeq(str, 1, Len(str) - 1))
    ELSE str

\* The text analyzeQuery hands to performDryRun, without the test of trim().
queryTextUntrimmed(editor, sel) ==
    IF editor # NoDoc /\ ~isEmpty(sel) THEN getText(sel) ELSE DocumentText

\* The text analyzeQuery hands to performDryRun: the selected text, or the
\* whole document.
queryText(editor, sel) ==
    IF editor # NoDoc /\ ~isEmpty(sel) /\ Len(trim(getText(sel))) > 0
        THEN getText(sel)
        ELSE DocumentText

\* An invocation suspended at the await: its document, the callback that
\* awaits it, the configuration it read at its start and the text it sent.
\* (Every caller passes the visible editor of the document, if there is one.)
Call(d, cont) ==
    [ doc |-> d, cont |-> cont, config |-> config,
      query |-> queryText(findEditor(d), selection[d]) ]

\* Whether performDryRun counts: the service reads the flag that
\* updateTrackingSettings keeps, the single-file extension the setting.
trackingOn(s) == IF build = "service" THEN s.tracking ELSE config.trackDryRuns

\* performDryRun without its counter.
performDryRunUncounted(s) ==
    [s EXCEPT !.lastDryRunTime = now]

\* performDryRun counting the call and the job.
performDryRunTwice(s) ==
    [s EXCEPT !.dryRunCount = IF trackingOn(s) THEN @ + 2 ELSE @,
              !.lastDryRunTime = now]

\* performDryRun up to its await of the job: the tracker's bookkeeping.
performDryRun(s) ==
    [s EXCEPT !.dryRunCount = IF trackingOn(s) THEN @ + 1 ELSE @,
              !.lastDryRunTime = now]

\* analyzeQuery from its gates on, without the check of the two channels.
analyzeFromGateNoChannelCheck(s, d, w, cont) ==
    LET changed == hasDocumentChanged(s.documentVersions, d, version[d])
        dv == documentVersionsSet(s.documentVersions, d, version[d])
        elapsed == waitTimeElapsed(now, s.lastRunTime, w)
    IN  IF ~elapsed /\ ~changed
            THEN [s EXCEPT !.outcome = GateOutcome("gated", d, w, s.lastRunTime)]
        ELSE IF isEligibleForAnalysis(d)
            THEN [performDryRun(s) EXCEPT
                           !.documentVersions = dv,
                           !.isRunning = TRUE,
                           !.status = IF config.enableStatusBar THEN Analyzing ELSE @,
                           !.inflight = Append(s.inflight, Call(d, cont)),
                           !.outcome = GateOutcome("started", d, w, s.lastRunTime)]
        ELSE [s EXCEPT !.documentVersions = dv,
                       !.isRunning = FALSE,
                       !.lastRunTime = now,
                       !.outcome = GateOutcome("ineligible", d, w, s.lastRunTime)]

\* analyzeQuery from its gates on, without the test of isEligibleForAnalysis.
analyzeFromGateAnyDocument(s, d, w, cont) ==
    LET changed == hasDocumentChanged(s.documentVersions, d, version[d])
        dv == documentVersionsSet(s.documentVersions, d, version[d])
        elapsed == waitTimeElapsed(now, s.lastRunTime, w)
    IN  IF ~elapsed /\ ~changed
            THEN [s EXCEPT !.outcome = GateOutcome("gated", d, w, s.lastRunTime)]
        ELSE IF ~config.enableStatusBar /\ ~config.enableNotifications
            THEN [s EXCEPT !.documentVersions = dv,
                           !.outcome = GateOutcome("configAbort", d, w, s.lastRunTime)]
        ELSE [performDryRun(s) EXCEPT
                           !.documentVersions = dv,
                           !.isRunning = TRUE,
                           !.status = IF config.enableStatusBar THEN Analyzing ELSE @,
                           !.inflight = Append(s.inflight, Call(d, cont)),
                           !.outcome = GateOutcome("started", d, w, s.lastRunTime)]

\* analyzeQuery from its gates on, without the rate gate.
analyzeFromGateUngated(s, d, w, cont) ==
    LET dv == documentVersionsSet(s.documentVersions, d, version[d])
    IN  IF ~config.enableStatusBar /\ ~config.enableNotifications
            THEN [s EXCEPT !.documentVersions = dv,
                           !.outcome = GateOutcome("configAbort", d, w, s.lastRunTime)]
        ELSE IF isEligibleForAnalysis(d)
            THEN [performDryRun(s) EXCEPT
                           !.documentVersions = dv,
                           !.isRunning = TRUE,
                           !.status = IF config.enableStatusBar THEN Analyzing ELSE @,
                           !.inflight = Append(s.inflight, Call(d, cont)),
                           !.outcome = GateOutcome("started", d, w, s.lastRunTime)]
        ELSE [s EXCEPT !.documentVersions = dv,
                       !.isRunning = FALSE,
                       !.lastRunTime = now,
                       !.outcome = GateOutcome("ineligible", d, w, s.lastRunTime)]

\* analyzeQuery from its gates on (both builds): the rate gate, the
\* configuration check, and the run up to the await of performDryRun.
analyzeFromGate(s, d, w, cont) ==
    LET changed == hasDocumentChanged(s.documentVersions, d, version[d])
        dv == documentVersionsSet(s.documentVersions, d, version[d])
        elapsed == waitTimeElapsed(now, s.lastRunTime, w)
    IN  IF ~elapsed /\ ~changed
            THEN [s EXCEPT !.outcome = GateOutcome("gated", d, w, s.lastRunTime)]
        ELSE IF ~config.enableStatusBar /\ ~config.enableNotifications
            THEN [s EXCEPT !.documentVersions = dv,
                           !.outcome = GateOutcome("configAbort", d, w, s.lastRunTime)]
        ELSE IF isEligibleForAnalysis(d)
            THEN [performDryRun(s) EXCEPT
                           !.documentVersions = dv,
                           !.isRunning = TRUE,
                           !.status = IF config.enableStatusBar THEN Analyzing ELSE @,
                           !.inflight = Append(s.inflight, Call(d, cont)),
                           !.outcome = GateOutcome("started", d, w, s.lastRunTime)]
        ELSE [s EXCEPT !.documentVersions = dv,
                       !.isRunning = FALSE,
                       !.lastRunTime = now,
                       !.outcome = GateOutcome("ineligible", d, w, s.lastRunTime)]

\* analysisService.analyzeQuery with the isRunning guard taken out.
analyzeQueryServiceUnguarded(s, d, w, cont) ==
    IF d = NoDoc
        THEN [s EXCEPT !.outcome = Outcome("noDocument", d, w)]
    ELSE analyzeFromGate(s, d, w, cont)

\* analysisService.analyzeQuery with hasDocumentChanged called before the
\* isRunning guard, so that a dropped call records the version it carried.
analyzeQueryServiceRecording(s, d, w, cont) ==
    IF d = NoDoc
        THEN [s EXCEPT !.outcome = Outcome("noDocument", d, w)]
    ELSE IF s.isRunning
        THEN [s EXCEPT !.documentVersions = documentVersionsSet(s.documentVersions, d, version[d]),
                       !.outcome = Outcome("busy", d, w)]
    ELSE analyzeFromGate(s, d, w, cont)

\* analysisService.analyzeQuery up to its first suspension or return.
analyzeQueryService(s, d, w, cont) ==
    IF d = NoDoc
        THEN [s EXCEPT !.outcome = Outcome("noDocument", d, w)]
    ELSE IF s.isRunning
        THEN [s EXCEPT !.outcome = Outcome("busy", d, w)]
    ELSE analyzeFromGate(s, d, w, cont)

\* The single-file extension's analyzeQuery up to its first suspension or return.
analyzeQueryMonolith(s, d, w, cont) ==
    IF ~s.active
        THEN [s EXCEPT !.outcome = Outcome("paused", d, w)]
    ELSE IF d = NoDoc
        THEN [s EXCEPT !.outcome = Outcome("noDocument", d, w)]
    ELSE analyzeFromGate(s, d, w, cont)

analyzeQuery(s, d, w, cont) ==
    IF build = "service"
        THEN analyzeQueryService(s, d, w, cont)
        ELSE analyzeQueryMonolith(s, d, w, cont)

\* The run state after the call; the handlers add their own updates.
SetRunState(r) ==
    /\ Len(r.inflight) <= MaxInflight
    /\ r.dryRunCount <= MaxDryRuns
    /\ resultStatusBar' = r.status
    /\ lastFullErrorMessage' = r.lastError
    /\ dryRunCount' = r.dryRunCount
    /\ lastDryRunTime' = r.lastDryRunTime
    /\ isDryRunTrackingEnabled' = r.tracking
    /\ isExtensionActive' = r.active
    /\ isRunning' = r.isRunning
    /\ lastRunTime' = r.lastRunTime
    /\ documentVersions' = r.documentVersions
    /\ inflight' = r.inflight
    /\ outcome' = r.outcome

runVars == << isExtensionActive, isRunning, lastRunTime, documentVersions,
             inflight, outcome, reportVars, statsVars >>

\* Whether the call suspended at await performDryRun (it did not return yet).
Suspended(s, r) == Len(r.inflight) > Len(s.inflight)


\* --------------------------------------------------------------- the state
Init ==
    /\ build \in Builds
    /\ config = DefaultConfig
    /\ isExtensionActive = FALSE
    /\ open = {}
    /\ visible = {}
    /\ version = [d \in Docs |-> 1]
    /\ activeEditor = NoDoc
    /\ isRunning = FALSE
    /\ lastRunTime = NoTime
    /\ documentVersions = << >>
    /\ inflight = << >>
    /\ outcome = Outcome("none", NoDoc, 0)
    /\ timers = {}
    /\ changeDebounceTimer = NoTimer
    /\ selection = [d \in Docs |-> "empty"]
    /\ selectionAnalysisTimer = NoTimer
    /\ lastSelection = NoSelection
    /\ selectionTriggerCount = 0
    /\ savingDocuments = << >>
    /\ closingDocuments = {}
    /\ callLog = << >>
    /\ resultStatusBar = NoResult
    /\ lastFullErrorMessage = NoMessage
    /\ dryRunCount = 0
    /\ lastDryRunTime = NoTime
    /\ isDryRunTrackingEnabled = FALSE

\* ------------------------------------------------------------ the commands
\* bigquery-previewer.startExtension, single-file extension.
StartExtensionMonolith ==
    /\ build = "monolith"
    /\ LET s == [RunState EXCEPT !.active = TRUE]
       IN  IF activeEditor # NoDoc /\ isEligibleForAnalysis(activeEditor)
               THEN SetRunState(analyzeQuery(s, activeEditor, defaultWaitTimeUntilNextRun, "none"))
               ELSE SetRunState(s)
    /\ UNCHANGED << build, config, envVars, timers, changeDebounceTimer,
                    savingDocuments, closingDocuments, selVars, callLog >>

\* startExtensionHandler: activates, then waits for the 3 s notice.
StartExtensionService ==
    /\ build = "service"
    /\ isExtensionActive' = TRUE
    /\ CanArm(timers)
    /\ timers' = setTimeout(timers, "startNotice", noticeDelay, NoDoc)
    /\ UNCHANGED << build, config, envVars, isRunning, lastRunTime,
                    documentVersions, inflight, outcome, changeDebounceTimer,
                    savingDocuments, closingDocuments, selVars, callLog,
                    reportVars, statsVars >>

\* startExtensionHandler after the notice: analyses the active editor's file.
StartNoticeDone ==
    \E t \in timers :
        /\ t.kind = "startNotice"
        /\ t.due <= now
        /\ timers' = timers \ {t}
        /\ IF activeEditor # NoDoc /\ isEligibleForAnalysis(activeEditor)
               THEN SetRunState(analyzeQuery(RunState, activeEditor, defaultWaitTimeUntilNextRun, "none"))
               ELSE UNCHANGED runVars
        /\ UNCHANGED << build, config, envVars, changeDebounceTimer,
                        savingDocuments, closingDocuments, selVars, callLog >>

\* bigquery-previewer.pauseExtension, single-file extension.
PauseExtensionMonolith ==
    /\ build = "monolith"
    /\ isExtensionActive' = FALSE
    /\ timers' = clearTimeout(timers, changeDebounceTimer)
    /\ changeDebounceTimer' = NoTimer
    /\ UNCHANGED << build, config, envVars, isRunning, lastRunTime,
                    documentVersions, inflight, outcome,
                    savingDocuments, closingDocuments, selVars, callLog,
                    reportVars, statsVars >>

\* pauseExtensionHandler that also drops the analysis in flight.
PauseExtensionServiceCancelling ==
    /\ build = "service"
    /\ isExtensionActive' = FALSE
    /\ inflight' = << >>
    /\ isRunning' = FALSE
    /\ UNCHANGED << build, config, envVars, lastRunTime,
                    documentVersions, outcome, timers,
                    changeDebounceTimer, savingDocuments, closingDocuments, selVars, callLog,
                    reportVars, statsVars >>

\* pauseExtensionHandler
PauseExtensionService ==
    /\ build = "service"
    /\ isExtensionActive' = FALSE
    /\ UNCHANGED << build, config, envVars, isRunning, lastRunTime,
                    documentVersions, inflight, outcome, timers,
                    changeDebounceTimer, savingDocuments, closingDocuments, selVars, callLog,
                    reportVars, statsVars >>

\* The manual trigger falling back on an open query file when no editor is
\* active.
AnalyzeQueryCommandAnyOpen ==
    /\ LET s == [RunState EXCEPT !.active = TRUE]
           d == IF activeEditor # NoDoc THEN activeEditor
                ELSE IF "q" \in open THEN "q" ELSE NoDoc
       IN  IF d = NoDoc
               THEN SetRunState([s EXCEPT !.outcome =
                        Outcome("noEditor", NoDoc, defaultWaitTimeUntilNextRun)])
               ELSE SetRunState(analyzeQuery(s, d, defaultWaitTimeUntilNextRun, "none"))
    /\ UNCHANGED << build, config, envVars, timers, changeDebounceTimer,
                    savingDocuments, closingDocuments, selVars, callLog >>

\* bigquery-previewer.analyzeQuery: the manual trigger.  When paused the
\* user is asked, and the handler goes on only on "Activate".
\* (On any other answer it returns, having changed nothing.)
AnalyzeQueryCommand ==
    /\ LET s == [RunState EXCEPT !.active = TRUE]
       IN  IF activeEditor = NoDoc
               THEN SetRunState([s EXCEPT !.outcome =
                        Outcome("noEditor", NoDoc, defaultWaitTimeUntilNextRun)])
               ELSE SetRunState(analyzeQuery(s, activeEditor, defaultWaitTimeUntilNextRun, "none"))
    /\ UNCHANGED << build, config, envVars, timers, changeDebounceTimer,
                    savingDocuments, closingDocuments, selVars, callLog >>

\* ------------------------------------------------- the host's event handlers
\* onDidOpenTextDocument: the host opens d (a new document object, version 1).
DidOpenTextDocument(d) ==
    /\ d \notin open
    /\ open' = open \cup {d}
    /\ UNCHANGED << version, visible, activeEditor, selection >>
    /\ IF isExtensionActive /\ config.autoRunOnOpen /\ isEligibleForAnalysis(d)
           THEN SetRunState(analyzeQuery(RunState, d, defaultWaitTimeUntilNextRun, "none"))
           ELSE UNCHANGED runVars
    /\ UNCHANGED << build, config, timers, changeDebounceTimer,
                    savingDocuments, closingDocuments, selVars, callLog >>

\* The host shows an open document in an editor and focuses it.
ShowEditor(d) ==
    /\ d \in open
    /\ activeEditor # d
    /\ visible' = visible \cup {d}
    /\ activeEditor' = d
    /\ UNCHANGED << build, config, open, version, selection, runVars, timers,
                    changeDebounceTimer, savingDocuments, closingDocuments, selVars, callLog >>

\* onWillSaveTextDocument
WillSaveTextDocument(d) ==
    /\ d \in open
    /\ IF isEligibleForAnalysis(d)
           THEN LET cleared == IF d \in DOMAIN savingDocuments
                                   THEN clearTimeout(timers, savingDocuments[d])
                                   ELSE timers
                    id == FreshId(cleared)
                IN  /\ CanArm(cleared)
                    /\ timers' = setTimeout(cleared, "saving", willSaveDelay, d)
                    /\ savingDocuments' =
                           [ k \in DOMAIN savingDocuments \cup {d} |->
                               IF k = d THEN id ELSE savingDocuments[k] ]
           ELSE UNCHANGED << timers, savingDocuments >>
    /\ UNCHANGED << build, config, envVars, runVars, changeDebounceTimer,
                    closingDocuments, selVars, callLog >>

\* The will-save timer's callback without its savingDocuments.delete(uri).
SavingTimerFireKeepsEntry ==
    \E t \in timers :
        /\ t.kind = "saving"
        /\ t.due <= now
        /\ timers' = timers \ {t}
        /\ UNCHANGED << build, config, envVars, runVars, changeDebounceTimer,
                        savingDocuments, closingDocuments, selVars, callLog >>

\* The will-save timer's callback: savingDocuments.delete(uri).
SavingTimerFire ==
    \E t \in timers :
        /\ t.kind = "saving"
        /\ t.due <= now
        /\ timers' = timers \ {t}
        /\ savingDocuments' = [ k \in DOMAIN savingDocuments \ {t.doc} |-> savingDocuments[k] ]
        /\ UNCHANGED << build, config, envVars, runVars, changeDebounceTimer,
                        closingDocuments, selVars, callLog >>

\* onDidCloseTextDocument: the host closes d (its document object is gone; the
\* next one opened for d starts at version 1 with an empty selection).
DidCloseTextDocument(d) ==
    /\ d \in open
    /\ open' = open \ {d}
    /\ visible' = visible \ {d}
    /\ activeEditor' = IF activeEditor = d THEN NoDoc ELSE activeEditor
    /\ selection' = [selection EXCEPT ![d] = "empty"]
    /\ version' = [version EXCEPT ![d] = 1]
    /\ IF d \in DOMAIN savingDocuments
           THEN /\ closingDocuments' = closingDocuments \cup {d}
                /\ CanArm(clearTimeout(timers, savingDocuments[d]))
                /\ timers' = setTimeout(clearTimeout(timers, savingDocuments[d]),
                                        "closing", closingGraceDelay, d)
                /\ savingDocuments' =
                       [ k \in DOMAIN savingDocuments \ {d} |-> savingDocuments[k] ]
           ELSE UNCHANGED << closingDocuments, timers, savingDocuments >>
    /\ UNCHANGED << build, config, runVars, changeDebounceTimer, selVars, callLog >>

\* The grace timer's callback: closingDocuments.delete(uri).
ClosingTimerFire ==
    \E t \in timers :
        /\ t.kind = "closing"
        /\ t.due <= now
        /\ timers' = timers \ {t}
        /\ closingDocuments' = closingDocuments \ {t.doc}
        /\ UNCHANGED << build, config, envVars, runVars, changeDebounceTimer,
                        savingDocuments, selVars, callLog >>

\* onDidSaveTextDocument without the test of closingDocuments and
\* savingDocuments.
DidSaveTextDocumentUnchecked(d) ==
    /\ d \in open \/ d \in closingDocuments
    /\ IF /\ isExtensionActive
          /\ config.autoRunOnSave
          /\ findEditor(d) # NoDoc
           THEN SetRunState(analyzeQuery(RunState, d, defaultWaitTimeUntilNextRun, "none"))
           ELSE UNCHANGED runVars
    /\ UNCHANGED << build, config, envVars, timers, changeDebounceTimer,
                    savingDocuments, closingDocuments, selVars, callLog >>

\* onDidSaveTextDocument: the host reports the save of a document that is
\* open, or that it has just closed (save-on-close). The return at the test of
\* closingDocuments and savingDocuments writes its log line ("saveSkipped").
DidSaveTextDocument(d) ==
    /\ d \in open \/ d \in closingDocuments
    /\ IF ~isExtensionActive
           THEN UNCHANGED runVars
       ELSE IF d \in closingDocuments \/ d \in DOMAIN savingDocuments
           THEN SetRunState([RunState EXCEPT
                    !.outcome = Outcome("saveSkipped", d, defaultWaitTimeUntilNextRun)])
       ELSE IF config.autoRunOnSave /\ findEditor(d) # NoDoc
           THEN SetRunState(analyzeQuery(RunState, d, defaultWaitTimeUntilNextRun, "none"))
       ELSE UNCHANGED runVars
    /\ UNCHANGED << build, config, envVars, timers, changeDebounceTimer,
                    savingDocuments, closingDocuments, selVars, callLog >>

\* onDidChangeTextDocument: an edit raises the version and (re)arms the
\* debounce timer.
DidChangeTextDocument(d) ==
    /\ d \in open
    /\ version[d] < MaxVersion
    /\ version' = [version EXCEPT ![d] = @ + 1]
    /\ UNCHANGED << open, visible, activeEditor, selection >>
    /\ IF isExtensionActive /\ config.autoRunOnChange /\ isEligibleForAnalysis(d)
           THEN LET cleared == clearTimeout(timers, changeDebounceTimer)
                IN  /\ CanArm(cleared)
                    /\ timers' = setTimeout(cleared, "change", config.changeDebounceDelayMs, d)
                    /\ changeDebounceTimer' = FreshId(cleared)
           ELSE UNCHANGED << timers, changeDebounceTimer >>
    /\ UNCHANGED << build, config, runVars, savingDocuments,
                    closingDocuments, selVars, callLog >>

\* The debounce timer's callback: analyzeQuery with the onChange wait time,
\* then changeDebounceTimer = undefined (after the await).
ChangeTimerFire ==
    \E t \in timers :
        /\ t.kind = "change"
        /\ t.due <= now
        /\ timers' = timers \ {t}
        /\ LET r == analyzeQuery(RunState, t.doc, waitTimeUntilNextRunForOnChange, "change")
           IN  /\ SetRunState(r)
               /\ changeDebounceTimer' =
                      IF Suspended(RunState, r) THEN changeDebounceTimer ELSE NoTimer
        /\ UNCHANGED << build, config, envVars, savingDocuments,
                        closingDocuments, selVars, callLog >>

\* -------------------------------------------------------- selectionService
\* The state handleSelectionChange reads and writes, as a record.
SelState ==
    [ count |-> selectionTriggerCount, timer |-> selectionAnalysisTimer,
      last |-> lastSelection, timers |-> timers ]

\* handleSelectionChange without the test of editor.selection.isEmpty.
handleSelectionChangeNoEmptyTest(s, d, sel) ==
    IF ~isExtensionActive \/ ~isEligibleForAnalysis(d)
        THEN s
    ELSE IF ~config.enableStatusBar /\ ~config.enableNotifications
        THEN s
    ELSE IF s.count + 1 > maxSelectionTriggers
        THEN [s EXCEPT !.count = @ + 1,
                       !.timers = setTimeout(@, "triggerReset", selectionTriggerResetTime, NoDoc)]
    ELSE LET cleared == clearTimeout(s.timers, s.timer)
         IN  [s EXCEPT !.count = @ + 1,
                       !.timers = cleared \cup
                           {[ Timer(FreshId(cleared), "selection",
                                    now + selectionStabilizationDelay, d)
                              EXCEPT !.sel = sel ]},
                       !.timer = FreshId(cleared),
                       !.last = [ editor |-> d, selection |-> sel, timestamp |-> now ]]

\* handleSelectionChange without the return of the storm check: the counter is
\* raised and the event goes on to the cancellation and the arming.
handleSelectionChangeNoStormReturn(s, d, sel) ==
    IF ~isExtensionActive \/ ~isEligibleForAnalysis(d)
        THEN s
    ELSE IF ~config.enableStatusBar /\ ~config.enableNotifications
        THEN s
    ELSE LET cleared == clearTimeout(s.timers, s.timer)
         IN  IF sel = "empty"
                 THEN [s EXCEPT !.count = @ + 1, !.timers = cleared,
                                !.timer = NoTimer, !.last = NoSelection]
                 ELSE [s EXCEPT !.count = @ + 1,
                                !.timers = cleared \cup
                                    {[ Timer(FreshId(cleared), "selection",
                                             now + selectionStabilizationDelay, d)
                                       EXCEPT !.sel = sel ]},
                                !.timer = FreshId(cleared),
                                !.last = [ editor |-> d, selection |-> sel,
                                           timestamp |-> now ]]

\* handleSelectionChange(editor) for the editor of d, whose selection is sel.
handleSelectionChange(s, d, sel) ==
    IF ~isExtensionActive \/ ~isEligibleForAnalysis(d)
        THEN s
    ELSE IF ~config.enableStatusBar /\ ~config.enableNotifications
        THEN s
    ELSE IF s.count + 1 > maxSelectionTriggers
        THEN [s EXCEPT !.count = @ + 1,
                       !.timers = setTimeout(@, "triggerReset", selectionTriggerResetTime, NoDoc)]
    ELSE LET cleared == clearTimeout(s.timers, s.timer)
         IN  IF sel = "empty"
                 THEN [s EXCEPT !.count = @ + 1, !.timers = cleared,
                                !.timer = NoTimer, !.last = NoSelection]
                 ELSE [s EXCEPT !.count = @ + 1,
                                !.timers = cleared \cup
                                    {[ Timer(FreshId(cleared), "selection",
                                             now + selectionStabilizationDelay, d)
                                       EXCEPT !.sel = sel ]},
                                !.timer = FreshId(cleared),
                                !.last = [ editor |-> d, selection |-> sel,
                                           timestamp |-> now ]]

\* The listeners of onDidChangeTextEditorSelection: the single-file extension
\* registers handleSelectionChange twice, so it runs twice per event.
selectionListeners(s, d, sel) ==
    IF build = "monolith"
        THEN handleSelectionChange(handleSelectionChange(s, d, sel), d, sel)
        ELSE handleSelectionChange(s, d, sel)

\* onDidChangeTextEditorSelection: the selection of d's editor becomes sel.
DidChangeTextEditorSelection(d, sel) ==
    /\ d \in visible
    /\ selection' = [selection EXCEPT ![d] = sel]
    /\ LET r == selectionListeners(SelState, d, sel)
       IN  /\ Cardinality(r.timers) <= MaxTimers
           /\ timers' = r.timers
           /\ selectionAnalysisTimer' = r.timer
           /\ lastSelection' = r.last
           /\ selectionTriggerCount' = r.count
    /\ UNCHANGED << build, config, open, visible, version, activeEditor, runVars,
                    changeDebounceTimer, savingDocuments, closingDocuments, callLog >>

\* The stabilization timer's callback: analyzeQuery if the selection is still
\* the one stored, then selectionAnalysisTimer = undefined (after the await).
SelectionTimerFire ==
    \E t \in timers :
        /\ t.kind = "selection"
        /\ t.due <= now
        /\ timers' = timers \ {t}
        /\ IF /\ activeEditor # NoDoc
              /\ activeEditor = lastSelection.editor
              /\ activeEditor = t.doc
              /\ selection[activeEditor] = lastSelection.selection
               THEN LET r == analyzeQuery(RunState, t.doc, defaultWaitTimeUntilNextRun, "selection")
                    IN  /\ SetRunState(r)
                        /\ selectionAnalysisTimer' =
                               IF Suspended(RunState, r) THEN selectionAnalysisTimer ELSE NoTimer
               ELSE /\ UNCHANGED runVars
                    /\ selectionAnalysisTimer' = NoTimer
        /\ UNCHANGED << build, config, envVars, changeDebounceTimer, lastSelection,
                        selectionTriggerCount, savingDocuments, closingDocuments, callLog >>

\* The reset timer's callback: selectionTriggerCount = 0.
TriggerResetFire ==
    \E t \in timers :
        /\ t.kind = "triggerReset"
        /\ t.due <= now
        /\ timers' = timers \ {t}
        /\ selectionTriggerCount' = 0
        /\ UNCHANGED << build, config, envVars, runVars, changeDebounceTimer,
                        selectionAnalysisTimer, lastSelection, savingDocuments,
                        closingDocuments, callLog >>

\* -------------------------------------------------- the remote call's end
\* What the callback that awaited analyzeQuery does next.
Continue(cont) ==
    /\ changeDebounceTimer' = IF cont = "change" THEN NoTimer ELSE changeDebounceTimer
    /\ selectionAnalysisTimer' =
           IF cont = "selection" THEN NoTimer ELSE selectionAnalysisTimer
    /\ UNCHANGED << lastSelection, selectionTriggerCount >>

\* performDryRun resolves to r (bytes, or an error list): analyzeQuery reports
\* it under the configuration it read at its start and runs to its end.
RemoteReturn(i, r) ==
    /\ i \in 1..Len(inflight)
    /\ inflight' = RemoveAt(inflight, i)
    /\ resultStatusBar' = reportResult(resultStatusBar, r, inflight[i].config)
    /\ lastFullErrorMessage' = errorMessageAfter(r)
    /\ lastRunTime' = now
    /\ isRunning' = FALSE
    /\ Continue(inflight[i].cont)
    /\ UNCHANGED << build, config, envVars, isExtensionActive,
                    documentVersions, outcome, timers, savingDocuments,
                    closingDocuments, callLog, statsVars >>

\* The awaited call throws: the service's finally releases isRunning, the
\* single-file extension has no handler; the exception leaves the callback.
RemoteThrow(i) ==
    /\ i \in 1..Len(inflight)
    /\ inflight' = RemoveAt(inflight, i)
    /\ isRunning' = IF build = "service" THEN FALSE ELSE isRunning
    /\ UNCHANGED << build, config, envVars, isExtensionActive, lastRunTime,
                    documentVersions, outcome, timers, changeDebounceTimer,
                    savingDocuments, closingDocuments, selVars, callLog,
                    reportVars, statsVars >>

\* resetAnalysisState (analysisService)
resetAnalysisState ==
    /\ build = "service"
    /\ lastRunTime' = NoTime
    /\ lastFullErrorMessage' = NoMessage
    /\ isRunning' = FALSE
    /\ UNCHANGED << build, config, envVars, isExtensionActive,
                    documentVersions, inflight, outcome, timers,
                    changeDebounceTimer, savingDocuments, closingDocuments, selVars, callLog,
                    resultStatusBar, statsVars >>

\* resetErrorMessage (analysisService)
resetErrorMessage ==
    /\ build = "service"
    /\ lastFullErrorMessage' = NoMessage
    /\ UNCHANGED << build, config, envVars, isExtensionActive, isRunning, lastRunTime,
                    documentVersions, inflight, outcome, timers,
                    changeDebounceTimer, savingDocuments, closingDocuments, selVars, callLog,
                    resultStatusBar, statsVars >>

\* updateTrackingSettings (bigQueryService)
updateTrackingSettings ==
    /\ build = "service"
    /\ isDryRunTrackingEnabled' = config.trackDryRuns
    /\ UNCHANGED << build, config, envVars, isExtensionActive, isRunning, lastRunTime,
                    documentVersions, inflight, outcome, timers,
                    changeDebounceTimer, savingDocuments, closingDocuments, selVars, callLog,
                    reportVars, dryRunCount, lastDryRunTime >>

\* resetDryRunTracking (bigQueryService)
resetDryRunTracking ==
    /\ build = "service"
    /\ dryRunCount' = 0
    /\ lastDryRunTime' = NoTime
    /\ UNCHANGED << build, config, envVars, isExtensionActive, isRunning, lastRunTime,
                    documentVersions, inflight, outcome, timers,
                    changeDebounceTimer, savingDocuments, closingDocuments, selVars, callLog,
                    reportVars, isDryRunTrackingEnabled >>

\* The user edits the settings.
ConfigChange(c) ==
    /\ c # config
    /\ config' = c
    /\ UNCHANGED << build, envVars, runVars, timers, changeDebounceTimer,
                    savingDocuments, closingDocuments, selVars, callLog >>

\* ------------------------------------------------------------------ time
\* Time passes to the next sampled instant (the next timer deadline, or q ms
\* from now); a timer that is due fires first.
Tick(q) ==
    /\ \A t \in timers : t.due > now
    /\ LET d == Min({q} \cup { t.due : t \in timers })
       IN  /\ timers' = { [t EXCEPT !.due = @ - d] : t \in timers }
           /\ lastRunTime' = Aged(lastRunTime, d)
           /\ lastSelection' = AgedSelection(lastSelection, d)
           /\ lastDryRunTime' = AgedDryRun(lastDryRunTime, d)
    /\ UNCHANGED << build, config, envVars, isExtensionActive, isRunning,
                    documentVersions, inflight, outcome, changeDebounceTimer,
                    savingDocuments, closingDocuments, selectionAnalysisTimer,
                    selectionTriggerCount, callLog, reportVars,
                    dryRunCount, isDryRunTrackingEnabled >>

Next ==
    \/ StartExtensionMonolith
    \/ StartExtensionService
    \/ StartNoticeDone
    \/ PauseExtensionMonolith
    \/ PauseExtensionService
    \/ AnalyzeQueryCommand
    \/ \E d \in Docs : DidOpenTextDocument(d)
    \/ \E d \in Docs : ShowEditor(d)
    \/ \E d \in Docs : WillSaveTextDocument(d)
    \/ SavingTimerFire
    \/ \E d \in Docs : DidCloseTextDocument(d)
    \/ ClosingTimerFire
    \/ \E d \in Docs : DidSaveTextDocument(d)
    \/ \E d \in Docs : DidChangeTextDocument(d)
    \/ ChangeTimerFire
    \/ \E d \in Docs, sel \in Selections : DidChangeTextEditorSelection(d, sel)
    \/ SelectionTimerFire
    \/ TriggerResetFire
    \/ \E i \in 1..MaxInflight, r \in AllDryRunResults : RemoteReturn(i, r)
    \/ \E i \in 1..MaxInflight : RemoteThrow(i)
    \/ resetAnalysisState
    \/ resetErrorMessage
    \/ updateTrackingSettings
    \/ resetDryRunTracking
    \/ \E c \in Configs \cup TrackingConfigs : ConfigChange(c)
    \/ Tick(Quantum)

Spec == Init /\ [][Next]_vars

\* ------------------------------------------------------------- scenarios
\* The runs below restrict the host to the events one mechanism depends on.
Query == "q"

\* hasDocumentChanged(document) called directly, on any key with any version.
hasDocumentChangedCall(d, v) ==
    /\ Len(callLog) < MaxLog
    /\ documentVersions' = documentVersionsSet(documentVersions, d, v)
    /\ callLog' = Append(callLog,
                         [ doc |-> d, version |-> v,
                           result |-> hasDocumentChanged(documentVersions, d, v),
                           before |-> documentVersions, after |-> documentVersions' ])
    /\ UNCHANGED << build, config, envVars, isExtensionActive, isRunning, lastRunTime,
                    inflight, outcome, timers, changeDebounceTimer, savingDocuments,
                    closingDocuments, selVars, reportVars, statsVars >>

NextTracker == \E d \in Docs, v \in 1..MaxVersion : hasDocumentChangedCall(d, v)

SpecTracker == Init /\ [][NextTracker]_vars

\* Single flight: every trigger class on one query file.
NextFlight ==
    \/ AnalyzeQueryCommand
    \/ DidOpenTextDocument(Query)
    \/ ShowEditor(Query)
    \/ DidSaveTextDocument(Query)
    \/ DidChangeTextDocument(Query)
    \/ ChangeTimerFire
    \/ (selectionTriggerCount < MaxSelectionEvents /\ DidChangeTextEditorSelection(Query, "a"))
    \/ SelectionTimerFire
    \/ \E i \in 1..MaxInflight : RemoteReturn(i, SmallScan)
    \/ \E i \in 1..MaxInflight : RemoteThrow(i)
    \/ resetAnalysisState
    \/ Tick(Quantum)

SpecFlight == Init /\ [][NextFlight]_vars

\* The rate gate: triggers, edits and settings of one query file.
NextGate ==
    \/ AnalyzeQueryCommand
    \/ DidOpenTextDocument(Query)
    \/ ShowEditor(Query)
    \/ DidChangeTextDocument(Query)
    \/ ChangeTimerFire
    \/ \E i \in 1..MaxInflight : RemoteReturn(i, SmallScan)
    \/ \E i \in 1..MaxInflight : RemoteThrow(i)
    \/ resetAnalysisState
    \/ \E c \in Configs : ConfigChange(c)
    \/ Tick(Quantum)

SpecGate == Init /\ [][NextGate]_vars

\* The change debounce: edits of one query file.
NextDebounce ==
    \/ AnalyzeQueryCommand
    \/ DidOpenTextDocument(Query)
    \/ ShowEditor(Query)
    \/ DidChangeTextDocument(Query)
    \/ ChangeTimerFire
    \/ \E i \in 1..MaxInflight : RemoteReturn(i, SmallScan)
    \/ \E q \in {Quantum, HalfDebounce} : Tick(q)

SpecDebounce == Init /\ [][NextDebounce]_vars

\* Saving and closing: the will-save window and the closing grace window.
NextClose ==
    \/ AnalyzeQueryCommand
    \/ DidOpenTextDocument(Query)
    \/ ShowEditor(Query)
    \/ WillSaveTextDocument(Query)
    \/ SavingTimerFire
    \/ DidSaveTextDocument(Query)
    \/ DidCloseTextDocument(Query)
    \/ ClosingTimerFire
    \/ \E i \in 1..MaxInflight : RemoteReturn(i, SmallScan)
    \/ Tick(Quantum)

SpecClose == Init /\ [][NextClose]_vars

\* The selection stabilizer: selection changes in one query file's editor.
NextSelection ==
    \/ AnalyzeQueryCommand
    \/ DidOpenTextDocument(Query)
    \/ ShowEditor(Query)
    \/ \E sel \in Selections : DidChangeTextEditorSelection(Query, sel)
    \/ SelectionTimerFire
    \/ TriggerResetFire
    \/ \E i \in 1..MaxInflight : RemoteReturn(i, SmallScan)
    \/ Tick(Quantum)

SpecSelection == Init /\ [][NextSelection]_vars

\* A selection storm: the selection of one query file's editor alternates
\* between empty and one range, under the event loop's scheduling: a timer
\* that is due has its callback run, time passes, a dry run in flight returns.
NextStorm ==
    \/ AnalyzeQueryCommand
    \/ DidOpenTextDocument(Query)
    \/ ShowEditor(Query)
    \/ \E sel \in {"empty", "a"} : DidChangeTextEditorSelection(Query, sel)
    \/ SelectionTimerFire
    \/ TriggerResetFire
    \/ \E i \in 1..MaxInflight : RemoteReturn(i, SmallScan)
    \/ Tick(Quantum)

SpecStorm ==
    /\ Init /\ [][NextStorm]_vars
    /\ WF_vars(TriggerResetFire)
    /\ WF_vars(SelectionTimerFire)
    /\ WF_vars(\E i \in 1..MaxInflight : RemoteReturn(i, SmallScan))
    /\ WF_vars(Tick(Quantum))

\* The save-on-close bookkeeping alone, for a query file and another file,
\* under the event loop's scheduling of the two timers and of time.
NextExpiry ==
    \/ \E d \in Docs : DidOpenTextDocument(d)
    \/ \E d \in Docs : WillSaveTextDocument(d)
    \/ \E d \in Docs : DidCloseTextDocument(d)
    \/ SavingTimerFire
    \/ ClosingTimerFire
    \/ Tick(Quantum)

SpecExpiry ==
    /\ Init /\ [][NextExpiry]_vars
    /\ WF_vars(SavingTimerFire)
    /\ WF_vars(ClosingTimerFire)
    /\ WF_vars(Tick(Quantum))

\* A dry run resolves to r and analyzeQuery reports it.
reportResultCall(r, show, mb) ==
    /\ Len(callLog) < MaxResults
    /\ callLog' = Append(callLog,
                         [ result |-> r, showScanWarnings |-> show,
                           scanWarningThresholdMB |-> mb,
                           state |-> resultState(r, show, mb) ])
    /\ UNCHANGED << build, config, envVars, runVars, timers, changeDebounceTimer,
                    savingDocuments, closingDocuments, selVars >>

NextResult ==
    \E show \in BOOLEAN, mb \in ThresholdsMB :
        \E r \in DryRunResults(mb) : reportResultCall(r, show, mb)

SpecResult == Init /\ [][NextResult]_vars

\* The report of the runs on one query file: dry runs that resolve to a small
\* scan or to one of the error lists.
ReportResults ==
    {SmallScan} \cup { [ scannedBytes |-> 0, errors |-> e ] : e \in ErrorLists }

NextReport ==
    \/ AnalyzeQueryCommand
    \/ DidOpenTextDocument(Query)
    \/ ShowEditor(Query)
    \/ DidChangeTextDocument(Query)
    \/ ChangeTimerFire
    \/ \E i \in 1..MaxInflight, r \in ReportResults : RemoteReturn(i, r)
    \/ Tick(Quantum)

SpecReport == Init /\ [][NextReport]_vars

\* The dry-run tracker: runs of one query file while the trackDryRuns
\* setting, the tracking flag and the statistics are changed and reset.
TrackedResults == { SmallScan, [ scannedBytes |-> 0, errors |-> << Message(3) >> ] }

NextDryRuns ==
    \/ AnalyzeQueryCommand
    \/ DidOpenTextDocument(Query)
    \/ ShowEditor(Query)
    \/ \E i \in 1..MaxInflight, r \in TrackedResults : RemoteReturn(i, r)
    \/ \E c \in TrackingConfigs : ConfigChange(c)
    \/ updateTrackingSettings
    \/ resetDryRunTracking
    \/ Tick(Quantum)

SpecDryRuns == Init /\ [][NextDryRuns]_vars

\* The presentation channels: every trigger class on one query file while
\* the status bar setting is switched (notifications stay off).
NextChannels ==
    \/ AnalyzeQueryCommand
    \/ DidOpenTextDocument(Query)
    \/ ShowEditor(Query)
    \/ DidSaveTextDocument(Query)
    \/ DidChangeTextDocument(Query)
    \/ ChangeTimerFire
    \/ (selectionTriggerCount < MaxSelectionEvents /\ DidChangeTextEditorSelection(Query, "a"))
    \/ SelectionTimerFire
    \/ \E i \in 1..MaxInflight : RemoteReturn(i, SmallScan)
    \/ \E c \in Configs : ConfigChange(c)
    \/ Tick(Quantum)

SpecChannels == Init /\ [][NextChannels]_vars

\* Eligibility: the triggers of a text file next to those of a query file.
TextFile == "n"

NextEligibility ==
    \/ AnalyzeQueryCommand
    \/ \E d \in Docs : DidOpenTextDocument(d)
    \/ \E d \in Docs : ShowEditor(d)
    \/ \E d \in Docs : DidSaveTextDocument(d)
    \/ DidChangeTextDocument(TextFile)
    \/ (selectionTriggerCount < MaxSelectionEvents
           /\ DidChangeTextEditorSelection(TextFile, "a"))
    \/ \E i \in 1..MaxInflight : RemoteReturn(i, SmallScan)
    \/ Tick(Quantum)

SpecEligibility == Init /\ [][NextEligibility]_vars

\* Start and pause: the two commands next to the triggers of one query file.
NextPause ==
    \/ StartExtensionMonolith
    \/ StartExtensionService
    \/ StartNoticeDone
    \/ PauseExtensionMonolith
    \/ PauseExtensionService
    \/ AnalyzeQueryCommand
    \/ DidOpenTextDocument(Query)
    \/ ShowEditor(Query)
    \/ (version[Query] < MaxEdited /\ DidChangeTextDocument(Query))
    \/ ChangeTimerFire
    \/ (selectionTriggerCount < MaxSelectionEvents /\ DidChangeTextEditorSelection(Query, "a"))
    \/ SelectionTimerFire
    \/ \E i \in 1..MaxInflight : RemoteReturn(i, SmallScan)
    \/ Tick(Quantum)

SpecPause == Init /\ [][NextPause]_vars

\* A call in flight: one query file is analysed, paused, unselected and
\* closed while its dry run is outstanding.
NextOutstanding ==
    \/ AnalyzeQueryCommand
    \/ DidOpenTextDocument(Query)
    \/ ShowEditor(Query)
    \/ DidCloseTextDocument(Query)
    \/ PauseExtensionMonolith
    \/ PauseExtensionService
    \/ \E sel \in {"empty", "a"} :
          (selectionTriggerCount < MaxSelectionEvents /\ DidChangeTextEditorSelection(Query, sel))
    \/ SelectionTimerFire
    \/ \E i \in 1..MaxInflight, r \in TrackedResults : RemoteReturn(i, r)
    \/ Tick(Quantum)

SpecOutstanding == Init /\ [][NextOutstanding]_vars

\* End to end: one query file is opened, edited, closed and opened again
\* while its dry runs return a small scan.
NextOpenTwice ==
    \/ AnalyzeQueryCommand
    \/ DidOpenTextDocument(Query)
    \/ DidCloseTextDocument(Query)
    \/ (version[Query] < MaxEdited /\ DidChangeTextDocument(Query))
    \/ ChangeTimerFire
    \/ \E i \in 1..MaxInflight : RemoteReturn(i, SmallScan)
    \/ Tick(Quantum)

SpecOpenTwice == Init /\ [][NextOpenTwice]_vars

\* performDryRun from the job's end on: what createQueryJob resolved to or
\* rejected with, and the value performDryRun returns for it.
NoField == << "undefined" >>
NoList == << NoField >>
DigitValue(c) == CHOOSE n \in 0..9 : Digits[n + 1] = c
RECURSIVE parseInt(_)
parseInt(str) ==
    IF str = << >> THEN 0
    ELSE 10 * parseInt(SubSeq(str, 1, Len(str) - 1)) + DigitValue(str[Len(str)])

\* statistics?.totalBytesProcessed: a decimal string, empty, or not there.
ByteStrings ==
    { NoField, << >>, << "0" >>, << "5" >>,
      << "1", "0", "4", "8", "5", "7", "6" >> }
\* error.errors: not there, or a list of objects with a message (here the
\* messages); error.message.
RejectionErrors ==
    { NoList, << >>, << Message(3) >>, << Message(3), Message(4) >> }
JobOutcomes ==
    { [ kind |-> "resolved", totalBytesProcessed |-> b, errors |-> NoList,
        message |-> NoField ] : b \in ByteStrings }
    \cup
    { [ kind |-> "rejected", totalBytesProcessed |-> NoField, errors |-> e,
        message |-> m ] : e \in RejectionErrors, m \in { Message(5), Message(6) } }

\* a || b for a string or an array a: '' and undefined are falsy, [] is not.
OrElse(a, undefined, b, emptyIsFalsy) ==
    IF a = undefined \/ (emptyIsFalsy /\ a = << >>) THEN b ELSE a

dryRunResult(o) ==
    IF o.kind = "resolved"
        THEN [ scannedBytes |-> parseInt(OrElse(o.totalBytesProcessed, NoField, << "0" >>, TRUE)),
               errors |-> << >> ]
        ELSE [ scannedBytes |-> 0,
               errors |-> OrElse(o.errors, NoList, << o.message >>, FALSE) ]

\* createQueryJob ends with o and performDryRun returns.
createQueryJobCall(o) ==
    /\ Len(callLog) < MaxResults
    /\ callLog' = Append(callLog, [ job |-> o, result |-> dryRunResult(o) ])
    /\ UNCHANGED << build, config, envVars, runVars, timers, changeDebounceTimer,
                    savingDocuments, closingDocuments, selVars >>

NextJob == \E o \in JobOutcomes : createQueryJobCall(o)

SpecJob == Init /\ [][NextJob]_vars

\* The manual command with and without an active editor: one query file is
\* opened, shown, analysed and closed.
NextManual ==
    \/ AnalyzeQueryCommand
    \/ DidOpenTextDocument(Query)
    \/ ShowEditor(Query)
    \/ DidCloseTextDocument(Query)
    \/ \E i \in 1..MaxInflight, r \in TrackedResults : RemoteReturn(i, r)
    \/ Tick(Quantum)

SpecManual == Init /\ [][NextManual]_vars

\* The text sent: every trigger class on one query file whose editor has no
\* selection, a selected statement or a selected blank.
NextQuery ==
    \/ AnalyzeQueryCommand
    \/ DidOpenTextDocument(Query)
    \/ ShowEditor(Query)
    \/ DidSaveTextDocument(Query)
    \/ (version[Query] < MaxEdited /\ DidChangeTextDocument(Query))
    \/ ChangeTimerFire
    \/ \E sel \in {"empty", "a", "blank"} :
          (selectionTriggerCount < MaxSelectionEvents /\ DidChangeTextEditorSelection(Query, sel))
    \/ SelectionTimerFire
    \/ \E i \in 1..MaxInflight : RemoteReturn(i, SmallScan)
    \/ Tick(Quantum)

SpecQuery == Init /\ [][NextQuery]_vars

\* Triggers that arrive while a call is in flight: one query file that is
\* edited, saved and analysed by hand, with runs that end in bytes or errors.
NextBusy ==
    \/ AnalyzeQueryCommand
    \/ DidOpenTextDocument(Query)
    \/ ShowEditor(Query)
    \/ DidSaveTextDocument(Query)
    \/ (version[Query] < MaxEdited /\ DidChangeTextDocument(Query))
    \/ ChangeTimerFire
    \/ \E i \in 1..MaxInflight : \E r \in TrackedResults : RemoteReturn(i, r)
    \/ Tick(Quantum)

SpecBusy == Init /\ [][NextBusy]_vars

\* The configuration abort and what follows it: one query file that is never
\* edited, triggers by hand and by saving, and the settings switched between
\* one channel and none.
NextAbort ==
    \/ AnalyzeQueryCommand
    \/ DidOpenTextDocument(Query)
    \/ ShowEditor(Query)
    \/ DidSaveTextDocument(Query)
    \/ \E i \in 1..MaxInflight : RemoteReturn(i, SmallScan)
    \/ \E c \in Configs : ConfigChange(c)
    \/ Tick(Quantum)

SpecAbort == Init /\ [][NextAbort]_vars

\* ------------------------------------------------------------ properties
\* A step in which a trigger is delivered to analyzeQuery.
TriggerDelivered ==
    \/ AnalyzeQueryCommand
    \/ StartExtensionMonolith
    \/ StartNoticeDone
    \/ \E d \in Docs : DidOpenTextDocument(d)
    \/ \E d \in Docs : DidSaveTextDocument(d)
    \/ ChangeTimerFire
    \/ SelectionTimerFire

\* The guards of analyzeQuery that come before its rate gate.
BeforeGate == IF build = "service" THEN ~isRunning ELSE isExtensionActive

\* A step that calls analyzeQuery for document d with wait time w and gets
\* as far as the rate gate.
GateReached(d, w) ==
    \/ /\ AnalyzeQueryCommand
       /\ d = activeEditor
       /\ build = "service" => ~isRunning
       /\ w = defaultWaitTimeUntilNextRun
    \/ /\ DidOpenTextDocument(d)
       /\ isExtensionActive /\ config.autoRunOnOpen /\ isEligibleForAnalysis(d)
       /\ BeforeGate
       /\ w = defaultWaitTimeUntilNextRun
    \/ /\ ChangeTimerFire
       /\ \E t \in timers \ timers' : t.kind = "change" /\ t.doc = d
       /\ BeforeGate
       /\ w = waitTimeUntilNextRunForOnChange

\* RateGate.shouldRun as the specification states it.
ShouldRun(changed, last, t, minInterval) ==
    changed \/ (last # NoTime /\ t - last > minInterval)

\* C1: at most one remote call started by analyzeQuery is outstanding at any
\* time, whatever the interleaving of triggers.
C1_AtMostOneOutstanding == Len(inflight) <= 1

\* C2: in the service build a call of analyzeQuery that arrives while
\* isRunning is true starts no remote call and changes nothing of the run
\* state, and a remote call starts only in a step that delivers a trigger
\* (never when the in-flight call completes: nothing was queued).
C2_BusyCallDropped ==
    [][ build = "service" =>
          /\ (isRunning =>
                 /\ Len(inflight') <= Len(inflight)
                 /\ documentVersions' = documentVersions)
          /\ (isRunning /\ TriggerDelivered =>
                 /\ inflight' = inflight
                 /\ isRunning'
                 /\ lastRunTime' = lastRunTime)
          /\ (Len(inflight') > Len(inflight) => TriggerDelivered) ]_vars

\* C2 witness: a trigger was dropped as busy and the call that was in flight
\* has just completed, with nothing started in its place.
C2_Witness ==
    /\ build = "service"
    /\ outcome.kind = "busy"
    /\ inflight = << >>
    /\ ~isRunning
    /\ lastRunTime = now

\* C4: a call that reaches the rate gate proceeds iff the document changed or
\* lastRunTime is set and now - lastRunTime > minInterval (equality blocks),
\* with minInterval 10000 ms on the change-debounce path and 5000 ms else.
C4_RateGate ==
    [][ \A d \in Docs :
          \A w \in {defaultWaitTimeUntilNextRun, waitTimeUntilNextRunForOnChange} :
            GateReached(d, w) =>
              /\ outcome'.wait = w
              /\ outcome'.doc = d
              /\ outcome'.kind # "gated" <=>
                    ShouldRun(hasDocumentChanged(documentVersions, d, version[d]),
                              lastRunTime, now, w) ]_vars

\* C4 witness: an unchanged document was gated with now - lastRunTime equal
\* to the wait time of the call.
C4_Witness ==
    /\ outcome.kind = "gated"
    /\ outcome.since = outcome.wait

\* C5: in the service build, with lastRunTime null every call that reaches
\* the rate gate proceeds, whether or not the document is reported as changed.
C5_NullLastRunPasses ==
    [][ \A d \in Docs :
          \A w \in {defaultWaitTimeUntilNextRun, waitTimeUntilNextRunForOnChange} :
            (build = "service" /\ GateReached(d, w) /\ lastRunTime = NoTime)
                => outcome'.kind # "gated" ]_vars

\* The calls of hasDocumentChanged on key d made before call i.
EarlierCalls(i, d) == { j \in 1..(i - 1) : callLog[j].doc = d }

\* C6: in any sequence of hasDocumentChanged calls, a call on a key with no
\* entry returns true; on one key with a constant version only the first call
\* returns true; a call with a strictly greater version than the last one on
\* its key returns true and stores it; no call changes another key's entry.
C6_ChangeTracker ==
    \A i \in 1..Len(callLog) :
        LET e == callLog[i]
            earlier == EarlierCalls(i, e.doc)
        IN  /\ e.doc \notin DOMAIN e.before => e.result
            /\ earlier = {} => e.result
            /\ (earlier # {} /\ \A j \in earlier : callLog[j].version = e.version)
                  => ~e.result
            /\ (earlier # {} /\ e.version > callLog[Max(earlier)].version)
                  => e.result /\ e.after[e.doc] = e.version
            /\ \A k \in Docs \ {e.doc} :
                  /\ k \in DOMAIN e.after <=> k \in DOMAIN e.before
                  /\ k \in DOMAIN e.before => e.after[k] = e.before[k]

\* C6 witness: three calls on one key, the second with the first's version
\* (false), the third with a greater one (true), the other key tracked too.
C6_Witness ==
    /\ Len(callLog) = MaxLog
    /\ callLog[1].doc # callLog[2].doc
    /\ callLog[3].doc = callLog[2].doc /\ callLog[3].version = callLog[2].version
    /\ ~callLog[3].result
    /\ callLog[4].doc = callLog[2].doc /\ callLog[4].version > callLog[3].version
    /\ callLog[4].result

\* C7: with the close handler of the source, every tracked key belongs to an
\* open document (each close removes the closed document's key from
\* documentVersions).
C7_TrackedKeysAreOpen ==
    build = "monolith" => DOMAIN documentVersions \subseteq open

\* The change-debounce timers that are live.
ChangeTimers(ts) == { t \in ts : t.kind = "change" }

\* C8: a burst of change events gets exactly one debounce callback: when a
\* debounce callback fires, no other debounce timer armed before that instant
\* (within the fired timer's delay) is left pending to fire for the same burst.
C8_OneCallbackPerBurst ==
    [][ ChangeTimerFire =>
          \A t \in ChangeTimers(timers') : t.due >= config.changeDebounceDelayMs ]_vars

\* C9: at most one change-debounce timer is live in every reachable state.
C9_OneLiveChangeTimer == Cardinality(ChangeTimers(timers)) <= 1

\* The selection-stabilization timers that are live.
SelectionTimers(ts) == { t \in ts : t.kind = "selection" }

\* C10: a selection event that handleSelectionChange handles (extension
\* active, eligible editor, a feedback channel enabled) leaves no selection
\* timer that was pending before it, and at most one selection timer is live
\* after every step.
C10_PendingSelectionCancelled ==
    [][ /\ \A d \in Docs, sel \in Selections :
             ( /\ DidChangeTextEditorSelection(d, sel)
               /\ isExtensionActive /\ isEligibleForAnalysis(d)
               /\ config.enableStatusBar \/ config.enableNotifications )
             => SelectionTimers(timers) \cap SelectionTimers(timers') = {}
        /\ Cardinality(SelectionTimers(timers')) <= 1 ]_vars

\* A selection event that handleSelectionChange does not return from at its
\* first two checks (extension active, eligible editor, a feedback channel on).
HandledSelection(d, sel) ==
    /\ DidChangeTextEditorSelection(d, sel)
    /\ isExtensionActive /\ isEligibleForAnalysis(d)
    /\ config.enableStatusBar \/ config.enableNotifications

\* C11: a selection event whose selection is empty arms no selection
\* stabilization timer, whatever the trigger counter.
C11_EmptyNeverArms ==
    [][ \A d \in Docs :
          DidChangeTextEditorSelection(d, "empty")
            => SelectionTimers(timers') \subseteq SelectionTimers(timers) ]_vars

\* C11 witness: an empty selection was delivered with the counter above the cap.
C11_Witness ==
    /\ isExtensionActive
    /\ selection[Query] = "empty"
    /\ selectionTriggerCount > maxSelectionTriggers

\* C12: a handled selection event with an empty selection leaves no selection
\* timer pending and clears lastSelection, whatever the trigger counter.
C12_EmptyCancelsAndClears ==
    [][ \A d \in Docs :
          HandledSelection(d, "empty")
            => /\ SelectionTimers(timers') = {}
               /\ lastSelection' = NoSelection ]_vars

\* C13: when a selection timer fires and the active editor is not the editor
\* that armed it, or its current selection is not the selection that armed it,
\* the fire is discarded: analyzeQuery is not called and the run state stays.
C13_StaleFireDiscarded ==
    [][ \A t \in SelectionTimers(timers) :
          ( /\ SelectionTimerFire
            /\ t \notin timers'
            /\ ~(activeEditor = t.doc /\ selection[activeEditor] = t.sel) )
          => UNCHANGED runVars ]_vars

\* The ids of the selection-stabilization timers that are live.
SelectionTimerIds(ts) == { t.id : t \in SelectionTimers(ts) }

\* C14: while the counter is above the cap no step arms a selection timer;
\* with the counter at zero a handled event with a non-empty selection arms
\* one; and a counter above the cap is eventually reset to zero.
C14_StormSuppressionEnds ==
    /\ [][ selectionTriggerCount > maxSelectionTriggers
             => SelectionTimerIds(timers') \subseteq SelectionTimerIds(timers) ]_vars
    /\ [][ \A d \in Docs, sel \in Selections \ {"empty"} :
             (HandledSelection(d, sel) /\ selectionTriggerCount = 0)
               => \E t \in SelectionTimers(timers') :
                     /\ t.id = selectionAnalysisTimer'
                     /\ t.doc = d /\ t.sel = sel
                     /\ t.due = now + selectionStabilizationDelay ]_vars
    /\ (selectionTriggerCount > maxSelectionTriggers) ~> (selectionTriggerCount = 0)

\* C14 witness: after a storm (a second reset timer is still pending) the
\* counter was reset and the next event armed a selection timer again.
C14_Witness ==
    /\ selectionTriggerCount \in 1..2
    /\ \E t \in timers : t.kind = "triggerReset"
    /\ \E t \in timers :
          /\ t.kind = "selection"
          /\ t.id = selectionAnalysisTimer
          /\ t.due = now + selectionStabilizationDelay

\* C15: in every reachable state the selection trigger counter is at most
\* the cap: an event beyond the cap does not raise it.
C15_CounterAtMostCap == selectionTriggerCount <= maxSelectionTriggers

\* C16: the counter is windowed: an event with a non-empty selection that is
\* handled more than the window (1500 ms) after the last counted event, with
\* the counter not above the cap, is not suppressed (it arms its timer).
C16_WindowedCounter ==
    [][ \A d \in Docs, sel \in Selections \ {"empty"} :
          ( /\ HandledSelection(d, sel)
            /\ selectionTriggerCount <= maxSelectionTriggers
            /\ lastSelection # NoSelection
            /\ now - lastSelection.timestamp > selectionTriggerResetTime )
          => \E t \in SelectionTimers(timers') :
                /\ t.id = selectionAnalysisTimer'
                /\ t.doc = d /\ t.sel = sel
                /\ t.due = now + selectionStabilizationDelay ]_vars

\* What analyzeQuery may change, apart from the record of the last outcome.
analysisVars == << isExtensionActive, isRunning, lastRunTime, documentVersions, inflight >>

\* C17: a did-save event for a document that is marked closing, or whose
\* will-save timer is pending, does not call analyzeQuery: nothing of the
\* analysis state changes and the only outcome recorded is the skip.
C17_SaveSkippedWhileClosing ==
    [][ \A d \in Docs :
          ( /\ DidSaveTextDocument(d)
            /\ d \in closingDocuments \/ d \in DOMAIN savingDocuments )
          => /\ UNCHANGED analysisVars
             /\ outcome' = outcome \/ outcome'.kind = "saveSkipped" ]_vars

\* C17 witness: after will-save and close the document was opened and shown
\* again within the grace window, and its did-save was skipped there.
C17_Witness ==
    /\ isExtensionActive /\ config.autoRunOnSave
    /\ Query \in closingDocuments
    /\ Query \in visible
    /\ outcome.kind = "saveSkipped"

\* C18: a did-save event for a document that no close event has marked as
\* closing reaches analyzeQuery (extension active, autoRunOnSave on, visible
\* editor), whether or not the will-save timer of that save is still pending.
C18_SaveReachesAnalysis ==
    [][ \A d \in Docs :
          ( /\ DidSaveTextDocument(d)
            /\ isExtensionActive /\ config.autoRunOnSave
            /\ d \in open /\ d \in visible
            /\ d \notin closingDocuments )
          => SetRunState(analyzeQuery(RunState, d, defaultWaitTimeUntilNextRun, "none")) ]_vars

\* A will-save or close event is delivered.
SaveOrCloseEvent ==
    \E d \in Docs : WillSaveTextDocument(d) \/ DidCloseTextDocument(d)

C20_ResultClassification ==
    \A i \in 1..Len(callLog) :
        LET e == callLog[i]
            over == e.result.scannedBytes > e.scanWarningThresholdMB * 1024 * 1024
        IN  /\ e.state \in {"Failed", "Warning", "Success"}
            /\ e.state = "Failed" <=> e.result.errors # << >>
            /\ e.result.errors = << >> =>
                  /\ e.state = "Warning" <=> (e.showScanWarnings /\ over)
                  /\ e.state = "Success" <=> ~(e.showScanWarnings /\ over)

\* C20 witness: with warnings on, a scan of exactly the default threshold was
\* reported as Success and the next one, a byte larger, as Warning.
C20_Witness ==
    /\ Len(callLog) = MaxResults
    /\ \A i \in 1..MaxResults :
          /\ callLog[i].showScanWarnings
          /\ callLog[i].scanWarningThresholdMB = defaultScanWarningThresholdMB
          /\ callLog[i].result.errors = << >>
    /\ callLog[1].result.scannedBytes = defaultScanWarningThresholdMB * MiB
    /\ callLog[1].state = "Success"
    /\ callLog[2].result.scannedBytes = defaultScanWarningThresholdMB * MiB + 1
    /\ callLog[2].state = "Warning"

\* C21: when a dry run completes, lastFullErrorMessage becomes the full
\* '; '-joined text of its errors, or null if it has none, and nothing else
\* changes it; a Failed status bar shows (after its label) that text in full
\* if it has at most 50 characters and else its first 50 followed by '...',
\* with the untruncated text as tooltip and as lastFullErrorMessage.
C21_ErrorText ==
    /\ [][ \A i \in 1..MaxInflight, r \in ReportResults :
             RemoteReturn(i, r) =>
                lastFullErrorMessage' =
                    IF r.errors # << >> THEN join(r.errors) ELSE NoMessage ]_vars
    /\ [][ lastFullErrorMessage' # lastFullErrorMessage
             => \E i \in 1..MaxInflight, r \in ReportResults : RemoteReturn(i, r) ]_vars
    /\ [](resultStatusBar.state = "Failed" =>
             LET full == lastFullErrorMessage
             IN  /\ full # NoMessage
                 /\ resultStatusBar.tooltip = full
                 /\ resultStatusBar.text =
                       ErrorLabel \o
                         (IF Len(full) <= maxErrorLength
                              THEN full
                              ELSE SubSeq(full, 1, maxErrorLength) \o << ".", ".", "." >>))

\* C21 witness: a failed run whose error text has 51 characters: the status
\* bar shows 50 of them and '...', the stored text has all 51.
C21_Witness ==
    /\ resultStatusBar.state = "Failed"
    /\ Len(lastFullErrorMessage) = maxErrorLength + 1
    /\ Len(resultStatusBar.text) = Len(ErrorLabel) + maxErrorLength + 3

\* C22: the result state is Analyzing only while isRunning is true: whenever
\* isRunning is released by the analysis itself (not by resetAnalysisState),
\* the result state has been overwritten by Success, Warning or Failed, so no
\* state with isRunning false shows Analyzing.
C22_TerminalBeforeRelease ==
    [][ (isRunning /\ ~isRunning' /\ ~resetAnalysisState)
            => resultStatusBar'.state # "Analyzing" ]_vars

\* A step in which performDryRun is called: a call joins inflight.
DryRunStarted == Len(inflight') > Len(inflight)

\* C23: resetDryRunTracking leaves count 0 and lastRunTime null; from then on,
\* with tracking enabled, every performDryRun call raises the count by exactly
\* one whatever it resolves to, and no other step changes the count: after N
\* calls the count is N.
C23_CountsEveryDryRun ==
    /\ [][ resetDryRunTracking
             => (dryRunCount' = 0 /\ lastDryRunTime' = NoTime) ]_vars
    /\ [][ (DryRunStarted /\ trackingOn(RunState))
             => dryRunCount' = dryRunCount + 1 ]_vars
    /\ [][ (~DryRunStarted /\ ~resetDryRunTracking)
             => dryRunCount' = dryRunCount ]_vars

\* C23 witness: tracking is on, two calls have been counted, the second of
\* them has returned an error list.
C23_Witness ==
    /\ trackingOn(RunState)
    /\ dryRunCount = 2
    /\ inflight = << >>
    /\ resultStatusBar.state = "Failed"

\* C24: while tracking is disabled a performDryRun call leaves the statistics
\* (count and lastRunTime) as they were, and changing the tracking flag or
\* the setting never alters the count.
C24_DisabledTrackingRecordsNothing ==
    /\ [][ (DryRunStarted /\ ~trackingOn(RunState))
             => UNCHANGED << dryRunCount, lastDryRunTime >> ]_vars
    /\ [][ (isDryRunTrackingEnabled' # isDryRunTrackingEnabled \/ config' # config)
             => UNCHANGED dryRunCount ]_vars

\* C25: the count is never negative, a step lowers it only if it is
\* resetDryRunTracking (which sets it to 0), and no step, so no performDryRun
\* call, raises it by more than one.
C25_CountMonotone ==
    /\ [](dryRunCount >= 0)
    /\ [][ dryRunCount' < dryRunCount
             => (resetDryRunTracking /\ dryRunCount' = 0) ]_vars
    /\ [][ dryRunCount' <= dryRunCount + 1 ]_vars

\* C25 witness: the statistics right after a reset that followed a run: the
\* status bar holds the run's result, the count is 0 and lastRunTime null.
C25_Witness ==
    /\ dryRunCount = 0
    /\ lastDryRunTime = NoTime
    /\ resultStatusBar.state = "Success"
    /\ trackingOn(RunState)

\* Neither the status bar nor notifications are enabled.
BothChannelsOff == ~config.enableStatusBar /\ ~config.enableNotifications

\* C26: while both channels are disabled no step starts a dry run; a run that
\* passed the rate gate is aborted with the warning and, like every other
\* trigger, leaves isRunning, lastRunTime and inflight as they were (isRunning
\* false in the service build); a selection event arms no timer and is not
\* counted.
C26_NoRunWithoutChannel ==
    /\ [][ BothChannelsOff => ~DryRunStarted ]_vars
    /\ [][ (BothChannelsOff /\ outcome' # outcome)
             => /\ outcome'.kind # "started"
                /\ UNCHANGED << isRunning, lastRunTime, inflight >>
                /\ (outcome'.kind = "configAbort" /\ build = "service") => ~isRunning' ]_vars
    /\ [][ (outcome' # outcome /\ outcome'.kind = "configAbort") => BothChannelsOff ]_vars
    /\ [][ (BothChannelsOff /\ selection' # selection)
             => UNCHANGED << timers, selectionAnalysisTimer, lastSelection,
                             selectionTriggerCount >> ]_vars

\* C26 witness: with both channels disabled a trigger for an open, changed
\* query file was aborted at the configuration check, and a range is selected
\* in its editor with no selection timer armed.
C26_Witness ==
    /\ BothChannelsOff
    /\ outcome.kind = "configAbort"
    /\ inflight = << >>
    /\ ~isRunning
    /\ selection[Query] = "a"
    /\ selectionAnalysisTimer = NoTimer
    /\ \A t \in timers : t.kind # "selection"

\* A document that is neither of language sql nor named *.sql.
NotSql(d) == d \in Docs /\ LanguageId[d] # "sql" /\ FileExt[d] # ".sql"

C28_TimerAfterPauseStartsNothing ==
    /\ ~isExtensionActive
    /\ [][ (~isExtensionActive /\ SelectionTimerFire) => ~DryRunStarted ]_vars

C30_OpenRunsOnceThenGated ==
    /\ [][ (/\ DidOpenTextDocument(Query)
            /\ isExtensionActive /\ ~isRunning /\ inflight = << >>
            /\ lastRunTime = NoTime /\ documentVersions = << >>
            /\ version[Query] = 1)
             => /\ DryRunStarted
                /\ inflight'[Len(inflight')].doc = Query
                /\ Query \in DOMAIN documentVersions'
                /\ documentVersions'[Query] = 1 ]_vars
    /\ [][ (\E i \in 1..MaxInflight : RemoteReturn(i, SmallScan))
             => (resultStatusBar'.state = "Success"
                 /\ resultStatusBar'.scannedBytes = 1048576) ]_vars
    /\ [][ (/\ DidOpenTextDocument(Query)
            /\ isExtensionActive
            /\ lastRunTime # NoTime
            /\ now - lastRunTime <= defaultWaitTimeUntilNextRun
            /\ Query \in DOMAIN documentVersions
            /\ documentVersions[Query] = version[Query])
             => ~DryRunStarted ]_vars

\* C30 witness: the file is open again at version 1 after its run showed
\* Success(1048576) within the wait time, and the second open was stopped at
\* the rate gate.
C30_Witness ==
    /\ Query \in open
    /\ version[Query] = 1
    /\ outcome.kind = "gated"
    /\ outcome.doc = Query
    /\ inflight = << >>
    /\ lastRunTime # NoTime
    /\ now - lastRunTime <= defaultWaitTimeUntilNextRun
    /\ resultStatusBar.state = "Success"
    /\ resultStatusBar.scannedBytes = 1048576

\* C31: performDryRun returns a value for every end of the job: for a
\* rejection scannedBytes = 0 and a non-empty errors list (the messages of
\* error.errors, or else the one error.message); for a job that resolved, no
\* errors and scannedBytes equal to the totalBytesProcessed reported (0 when
\* there is none).
C31_RejectionBecomesErrors ==
    \A i \in 1..Len(callLog) :
        LET o == callLog[i].job
            r == callLog[i].result
        IN  IF o.kind = "rejected"
                THEN /\ r.scannedBytes = 0
                     /\ r.errors # << >>
                     /\ r.errors = (IF o.errors = NoList \/ o.errors = << >>
                                        THEN << o.message >> ELSE o.errors)
                ELSE /\ r.errors = << >>
                     /\ (o.totalBytesProcessed = << "5" >> => r.scannedBytes = 5)
                     /\ (o.totalBytesProcessed
                            = << "1", "0", "4", "8", "5", "7", "6" >>
                                => r.scannedBytes = 1048576)
                     /\ (o.totalBytesProcessed \in {NoField, << "0" >>}
                          \/ o.totalBytesProcessed = << >>
                                => r.scannedBytes = 0)

C33_SelectionOrWholeText ==
    /\ [][ DryRunStarted
             => LET c == inflight'[Len(inflight')]
                    sel == selection[c.doc]
                IN  c.query =
                      IF c.doc \in visible /\ sel = "a" THEN << "S" >>
                      ELSE IF c.doc \in visible /\ sel = "b" THEN << "T" >>
                      ELSE << "S", " ", "T" >> ]_vars
    /\ [][ Len(inflight') >= Len(inflight)
             => \A i \in 1..Len(inflight) : inflight'[i].query = inflight[i].query ]_vars

\* C33 witness: the selection timer started a run for a blank selection, which
\* sent the whole document.
C33_Witness ==
    /\ Len(inflight) = 1
    /\ inflight[1].cont = "selection"
    /\ Query \in visible
    /\ selection[Query] = "blank"
    /\ inflight[1].query = DocumentText

\* C34: a trigger dropped because an analysis is in flight leaves the
\* recorded document versions, lastRunTime, the last error text and the result
\* state as they were; the recorded versions change only in a call that passed
\* the busy guard; and a call that passes it for a document whose version is
\* not the recorded one is not rate-gated.
C34_DroppedTriggerKeepsChange ==
    /\ [][ (TriggerDelivered /\ outcome'.kind = "busy")
             => UNCHANGED << documentVersions, lastRunTime, lastFullErrorMessage,
                             resultStatusBar, inflight, isRunning >> ]_vars
    /\ [][ documentVersions' # documentVersions
             => /\ TriggerDelivered
                /\ outcome'.kind \in {"started", "configAbort", "ineligible"} ]_vars
    /\ [][ ( /\ TriggerDelivered
             /\ outcome'.kind \in {"gated", "started", "configAbort", "ineligible"}
             /\ hasDocumentChanged(documentVersions, outcome'.doc, version[outcome'.doc]) )
             => outcome'.kind # "gated" ]_vars

\* C34 witness: a trigger carrying an edited version was dropped, the call then
\* in flight has failed, and the edited version is still not the recorded one.
C34_Witness ==
    /\ outcome.kind = "busy"
    /\ inflight = << >>
    /\ ~isRunning
    /\ lastFullErrorMessage # NoMessage
    /\ Query \in DOMAIN documentVersions
    /\ hasDocumentChanged(documentVersions, Query, version[Query])

\* C35: lastRunTime is written only in a step in which a remote call
\* completes (then it becomes the current time) or by resetAnalysisState; a
\* call of analyzeQuery that starts or completes no remote call leaves it
\* as it was. (The passing of time leaves the instant it names unchanged.)
C35_LastRunTimeOnlyOnCompletion ==
    [][ ~Tick(Quantum)
          => (lastRunTime' # lastRunTime
                => \/ Len(inflight') < Len(inflight) /\ lastRunTime' = now
                   \/ resetAnalysisState) ]_vars

\* C36: when the last call of analyzeQuery was aborted at the configuration
\* check, a channel has been enabled since, and the next call for the same
\* document at the same version reaches the rate gate, that call passes the
\* gate and starts a dry run.
C36_AbortKeepsChange ==
    [][ ( /\ outcome.kind = "configAbort"
          /\ ~BothChannelsOff
          /\ TriggerDelivered
          /\ outcome'.doc = outcome.doc
          /\ version' = version
          /\ outcome'.kind \in {"gated", "started"} )
          => DryRunStarted ]_vars

\* C37: in the service build resetAnalysisState called while a call is
\* outstanding makes no second concurrent call possible, and when a call
\* returns to the state the reset left (not running, no lastRunTime, no error
\* text) the run state is that state still.
C37_ResetWhileOutstanding ==
    /\ [](build = "service" => Len(inflight) <= 1)
    /\ [][ ( /\ build = "service"
             /\ Len(inflight) = 1
             /\ ~isRunning /\ lastRunTime = NoTime /\ lastFullErrorMessage = NoMessage
             /\ Len(inflight') < Len(inflight) )
             => UNCHANGED << isRunning, lastRunTime, lastFullErrorMessage >> ]_vars

\* C38: a selection-changed event that is counted (extension active, SQL
\* file, a channel enabled) raises selectionTriggerCount by exactly one, and
\* an event is suppressed (the reset timer armed) only if five events were
\* counted before it.
C38_OneCountPerSelectionEvent ==
    [][ \A sel \in Selections :
          ( /\ DidChangeTextEditorSelection(Query, sel)
            /\ isExtensionActive /\ ~BothChannelsOff )
          => /\ selectionTriggerCount' = selectionTriggerCount + 1
             /\ (\E t \in timers' \ timers : t.kind = "triggerReset")
                    => selectionTriggerCount >= maxSelectionTriggers ]_vars

\* C39: a document stays in closingDocuments for as long as a grace timer
\* armed by a save-on-close of it has time left: the mark set by a close is
\* removed by that close's own timer, not by the timer of an earlier close.
C39_MarkedUntilOwnTimerFires ==
    \A t \in timers :
        (t.kind = "closing" /\ t.due > now) => t.doc \in closingDocuments

\* C3: in the service build isRunning is true exactly while one invocation
\* of analyzeQuery is between acquiring the flag and leaving the function.
C3_RunningExactlyWhileInFlight ==
    build = "service" => (isRunning <=> Len(inflight) = 1)
====
